---------------------------- MODULE Spec2Model ----------------------------
(***************************************************************************)
(* Verification model of the ACAConverge front end and of the conversion   *)
(* job it polls.                                                           *)
(*                                                                         *)
(*   - FileUpload (two sources: src/unnamed/part_003, the multi-format     *)
(*     component, and src/frontend/src/components/FileUpload.jsx, the      *)
(*     .yxdb-only component) together with the App state it feeds.         *)
(*   - ConversionJob, the engine behind /conversion/status, whose code is  *)
(*     not part of the front-end sources and is modelled from spec.md.     *)
(*                                                                         *)
(* Percentages are kept in tenths of a percent (30% is 300) so that the    *)
(* factors 0.3 and 0.7 of the source stay exact in integer arithmetic.     *)
(***************************************************************************)
EXTENDS Integers, Sequences, FiniteSets, TLC

\* ------------------------------------------------------------------ bounds
\* FileUpload instances mounted in one behaviour (tab switches back to Import).
MaxMounts == 2
\* Job ids handed out by POST /upload and POST /upload/demo in one behaviour.
MaxJobs == 2
\* Records in the source file of the conversion job.
MaxRecords == 10
\* Rows per batch of the ChunkedWriter.
MaxBatch == 2
\* Queries queued in the 'pending-queries' store of the service worker.
MaxQueries == 2
\* Reconnect timers of NotificationProvider pending at one time.
MaxTimers == 2
\* Notifications held by NotificationProvider.
MaxNotes == 2
\* requests of one MessageCenter instance in flight at a time
MaxInFlight == 2
\* Mounts of OnboardingProvider (page loads).
MaxRemounts == 2
\* Rows per page of DataTable (the pageSize prop).
PageSize == 2

VARIABLES
    impl,            \* which FileUpload source is bundled
    activeTab,       \* App: useState('members')
    jobId,           \* App: useState(null); 0 is null
    schema,          \* App: useState(null)
    mounts,          \* FileUpload instances created so far; the last one is mounted
                     \* while activeTab = "upload"
    file,            \* FileUpload: useState(null)
    uploading,       \* FileUpload: useState(false)
    uploadProgress,  \* FileUpload (part_003): useState(0)
    progress,        \* FileUpload: useState(null)
    error,           \* FileUpload: useState(null)
    isDragging,      \* FileUpload: useState(false)
    req,             \* per instance: the upload / demo request in flight
    jobs,            \* per job id: the pollProgress chain of that job
    calls,           \* history: the onUploadComplete calls made so far
    run,             \* history: the percentages the status responses of the run on
                     \* screen have carried (the last one, and whether none decreased)
    job,             \* the ConversionJob pipeline of one job (engine)
    kb,              \* KeyboardProvider: shortcuts, showHelp; the keydown listener
    auth,            \* AuthProvider: user, localStorage tokens, refresh in flight
    sw,              \* service worker: caches, pending-queries store, sync run
    ws,              \* NotificationProvider: the WebSocket and its reconnect timer
    mc,              \* MessageCenter: preview dialog, sends issued
    ob,              \* OnboardingProvider: the tour, its timer, the stored flag
    dt               \* DataTable: data prop, sort, filters, currentPage

feVars == <<impl, activeTab, jobId, schema, mounts, file, uploading,
            uploadProgress, progress, error, isDragging, req, jobs, calls, run>>
engVars == <<job>>
\* the components that are modelled one at a time, each in a record
xVars == <<kb, auth, sw, ws, mc, ob, dt>>
vars == <<feVars, engVars, xVars>>

\* ------------------------------------------------------------ JS values
Null == "null"
NoFile == [null |-> TRUE]
NoProgress == [null |-> TRUE]
\* a missing / undefined percentage
NoPct == 0 - 1

\* JS  a || b  on strings: null, undefined and '' are falsy
JsOrStr(a, b) == IF a = Null \/ a = "" THEN b ELSE a
\* JS  a || 0  on numbers
JsOrZero(p) == IF p = NoPct THEN 0 ELSE p
MathMin(a, b) == IF a <= b THEN a ELSE b

\* ------------------------------------------------------- file extensions
UpperToLower ==
    [A |-> "a", B |-> "b", C |-> "c", D |-> "d", E |-> "e", F |-> "f", G |-> "g",
     H |-> "h", I |-> "i", J |-> "j", K |-> "k", L |-> "l", M |-> "m", N |-> "n",
     O |-> "o", P |-> "p", Q |-> "q", R |-> "r", S |-> "s", T |-> "t", U |-> "u",
     V |-> "v", W |-> "w", X |-> "x", Y |-> "y", Z |-> "z"]

\* String.prototype.toLowerCase on a sequence of one-character strings
toLowerCase(s) ==
    [i \in 1..Len(s) |-> IF s[i] \in DOMAIN UpperToLower THEN UpperToLower[s[i]] ELSE s[i]]

\* name.split('.').pop(): the text after the last dot, the whole name without one
SplitPop(s) ==
    LET dots == {i \in 1..Len(s) : s[i] = "."}
        last == CHOOSE i \in dots : \A k \in dots : k <= i
    IN  IF dots = {} THEN s ELSE SubSeq(s, last + 1, Len(s))

\* '.' + selectedFile.name.split('.').pop().toLowerCase()
ExtOf(name) == <<".">> \o toLowerCase(SplitPop(name))

\* Object.keys(SUPPORTED_FORMATS)
SUPPORTED_FORMATS ==
    { <<".", "y", "x", "d", "b">>,
      <<".", "c", "s", "v">>,
      <<".", "x", "l", "s", "x">>,
      <<".", "x", "l", "s">>,
      <<".", "j", "s", "o", "n">> }

\* the files the user picks or drops
Files ==
    { [name |-> <<"R", ".", "C", "S", "V">>],
      [name |-> <<"n", ".", "t", "x", "t">>],
      [name |-> <<"c", "s", "v">>] }

UnsupportedMessage == "Unsupported file format. Supported: .yxdb, .csv, .xlsx, .xls, .json"


\* ------------------------------------------------- status endpoint values
\* progress.status as GET /conversion/status/:id reports it.  'processing' and
\* 'error' are the names the front end itself uses for a working and for a failed
\* job (FileUpload pollProgress, QueryBuilder getStatusIcon); 'cancelled' is the
\* third terminal state of the job state machine, which has no other name.
WorkingStatuses == {"processing"}
StatusValues == WorkingStatuses \cup {"completed", "error", "cancelled"}
\* the terminal states of the job state machine, by their endpoint names
TerminalStatuses == {"completed", "error", "cancelled"}

\* progress.percentage as the server sends it (percent; NoPct when absent)
ServerPcts == {NoPct, 0, 40, 120}
Schemas == {"schemaA", "schemaB"}
Diagnostics == {Null, "Corrupt record at offset 512"}

Resp(k, st, p, m, e, sc) ==
    [kind |-> k, status |-> st, percentage |-> p, message |-> m, error |-> e, schema |-> sc]
NoResp == Resp("none", Null, NoPct, Null, Null, Null)
\* fetch rejected, or the body is not JSON
NetErr == Resp("neterr", Null, NoPct, Null, Null, Null)
\* a non-2xx answer with a JSON body that has no progress ({"detail": ...})
HttpErr == Resp("http_error", Null, NoPct, Null, Null, Null)
OkResponses ==
    { Resp("ok", st, p, "Converting rows", Null, Null) : st \in WorkingStatuses, p \in ServerPcts }
    \cup { Resp("ok", "cancelled", 40, "Cancelled", Null, Null) }
    \cup { Resp("ok", "completed", 100, "Done", Null, sc) : sc \in Schemas }
    \cup { Resp("ok", "error", 40, m, e, Null) : m \in Diagnostics, e \in Diagnostics }
StatusResponses == {NetErr, HttpErr} \cup OkResponses

\* outcomes of POST /upload and POST /upload/demo
UploadOutcomes == {"ok", "http_detail", "http_nodetail", "neterr"}

Prog(st, p, m, e) == [status |-> st, percentage |-> p, message |-> m, error |-> e]
\* what the progress bar shows: progress.percentage || 0
Shown(pr) == JsOrZero(pr.percentage)

NoReq == [kind |-> "none", percent |-> 0]

\* the FileUpload instance i is the one on screen
Live(i) == activeTab = "upload" /\ mounts = i
\* the upload zone and the two submit buttons are rendered: {!progress && ...}
ZoneShown == Live(mounts) /\ progress = NoProgress

cmpVars == <<file, uploading, uploadProgress, progress, error, isDragging>>
NoRun == [lastPct |-> NoPct, mono |-> TRUE]
appVars == <<activeTab, jobId, schema, mounts>>

\* useState initial values: the state of a FileUpload that has just been mounted.
\* The state of an unmounted instance is gone; the variables hold these values
\* while no FileUpload is on screen.
Fresh ==
    /\ file' = NoFile
    /\ uploading' = FALSE
    /\ uploadProgress' = 0
    /\ progress' = NoProgress
    /\ error' = Null
    /\ isDragging' = FALSE
    /\ run' = NoRun

\* ------------------------------------------------------------------- App
Tabs == {"upload", "dashboard", "members"}

\* mutant of handleUploadComplete: setSchema(newSchema) is left out
handleUploadComplete_StaleSchema(newJobId, newSchema) ==
    /\ jobId' = newJobId
    /\ schema' = schema
    /\ activeTab' = "dashboard"

\* App.handleUploadComplete
handleUploadComplete(newJobId, newSchema) ==
    /\ jobId' = newJobId
    /\ schema' = newSchema
    /\ activeTab' = "dashboard"

\* a nav button: setActiveTab(t).  Switching to Import mounts a new FileUpload;
\* switching away unmounts the one on screen.
SetActiveTab(t) ==
    /\ t # activeTab
    /\ activeTab' = t
    /\ IF t = "upload"
         THEN /\ mounts < MaxMounts
              /\ mounts' = mounts + 1
         ELSE UNCHANGED mounts
    /\ IF t = "upload" \/ activeTab = "upload" THEN Fresh ELSE UNCHANGED <<cmpVars, run>>
    /\ UNCHANGED <<engVars, xVars, impl, jobId, schema, req, jobs, calls>>

\* ------------------------------------------------------------ FileUpload
handleDragOver ==
    /\ ZoneShown
    /\ isDragging' = TRUE
    /\ UNCHANGED <<engVars, xVars, impl, appVars, file, uploading, uploadProgress, progress, error,
                   req, jobs, calls, run>>

handleDragLeave ==
    /\ ZoneShown
    /\ isDragging' = FALSE
    /\ UNCHANGED <<engVars, xVars, impl, appVars, file, uploading, uploadProgress, progress, error,
                   req, jobs, calls, run>>

\* part_003 validateAndSetFile; FileUpload.jsx sets the file unchecked
validateAndSetFile(selectedFile) ==
    IF impl = "part_003" /\ ExtOf(selectedFile.name) \notin SUPPORTED_FORMATS
      THEN /\ error' = UnsupportedMessage
           /\ UNCHANGED file
      ELSE /\ file' = selectedFile
           /\ error' = Null

handleDrop(droppedFile) ==
    /\ ZoneShown
    /\ isDragging' = FALSE
    /\ validateAndSetFile(droppedFile)
    /\ UNCHANGED <<engVars, xVars, impl, appVars, uploading, uploadProgress, progress, req, jobs, calls, run>>

handleFileSelect(selectedFile) ==
    /\ ZoneShown
    /\ validateAndSetFile(selectedFile)
    /\ UNCHANGED <<engVars, xVars, impl, appVars, uploading, uploadProgress, progress, isDragging,
                   req, jobs, calls, run>>


\* xhr.upload.onprogress percentages: Math.round((e.loaded / e.total) * 100)
UploadPercents == {0, 40, 100}

\* percentage: percent * 0.3  (upload is 30% of the total), in tenths
UploadShare(percent) == percent * 3

\* mutant of ConversionPercent: the Math.min(..., 100) is left out
ConversionPercent_Uncapped(p) == JsOrZero(p) * 7 + 300

\* (data.progress.percentage || 0) * 0.7 + 30, then Math.min(..., 100), in tenths
ConversionPercent(p) == MathMin(JsOrZero(p) * 7 + 300, 1000)

\* the progress object pollProgress stores for a status response
ProgressOf(r) ==
    IF impl = "part_003"
      THEN Prog(r.status, ConversionPercent(r.percentage), r.message, r.error)
      ELSE Prog(r.status, IF r.percentage = NoPct THEN NoPct ELSE r.percentage * 10,
                r.message, r.error)

\* mutant of ConversionError: the  || 'Conversion failed'  is left out
ConversionError_NoFallback(r) == IF impl = "part_003" THEN r.message ELSE r.error

\* the text setError gets for a job reported in error
ConversionError(r) ==
    IF impl = "part_003"
      THEN JsOrStr(r.message, "Conversion failed")
      ELSE JsOrStr(r.error, "Conversion failed")

\* the branch pollProgress takes on data.progress.status
PollBranch(st) ==
    IF st = "completed" THEN "complete"
    ELSE IF st = "error" THEN "fail"
    ELSE "continue"

\* err.message of a rejected upload
UploadError(outcome) ==
    IF impl = "part_003"
      THEN (IF outcome = "http_detail" THEN "File too large"
            ELSE IF outcome = "http_nodetail" THEN "Upload failed"
            ELSE "Network error - please check your connection")
      ELSE (IF outcome = "neterr" THEN "Failed to fetch" ELSE "Upload failed")

\* err.message of a rejected demo start
DemoError(outcome) ==
    IF outcome = "neterr" THEN "Failed to fetch" ELSE "Demo failed to start"

\* pollProgress(jobId) called: the first status request of the job is sent
NewChain(i) == [owner |-> i, poll |-> "fetch", last |-> Null]

handleUpload ==
    /\ ZoneShown
    /\ file # NoFile
    /\ ~uploading
    /\ uploading' = TRUE
    /\ error' = Null
    /\ uploadProgress' = 0
    /\ progress' = Prog("uploading", 0, "Uploading file...", Null)
    /\ req' = [req EXCEPT ![mounts] = [kind |-> "upload", percent |-> 0]]
    /\ run' = NoRun
    /\ UNCHANGED <<engVars, xVars, impl, appVars, file, isDragging, jobs, calls>>

\* xhr.upload.onprogress with e.lengthComputable (part_003 only); e.loaded grows
XhrProgress(i, percent) ==
    /\ impl = "part_003"
    /\ req[i].kind = "upload"
    /\ percent >= req[i].percent
    /\ req' = [req EXCEPT ![i].percent = percent]
    /\ IF Live(i)
         THEN /\ uploadProgress' = percent
              /\ progress' = Prog("uploading", UploadShare(percent),
                                  "Uploading: loaded / total", Null)
         ELSE UNCHANGED <<uploadProgress, progress>>
    /\ UNCHANGED <<engVars, xVars, impl, appVars, file, uploading, error, isDragging, jobs, calls, run>>

\* the rest of handleUpload, after `await`: the answer to POST /upload
UploadResponse(i, outcome) ==
    /\ req[i].kind = "upload"
    /\ req' = [req EXCEPT ![i] = NoReq]
    /\ IF outcome = "ok"
         THEN /\ Len(jobs) < MaxJobs
              /\ jobs' = Append(jobs, NewChain(i))
              /\ IF Live(i)
                   THEN progress' = Prog("processing",
                                         IF impl = "part_003" THEN 300 ELSE 100,
                                         "Processing file...", Null)
                   ELSE UNCHANGED progress
              /\ UNCHANGED <<error, uploading>>
         ELSE /\ UNCHANGED jobs
              /\ IF Live(i)
                   THEN /\ error' = UploadError(outcome)
                        /\ uploading' = FALSE
                        /\ progress' = NoProgress
                   ELSE UNCHANGED <<error, uploading, progress>>
    /\ UNCHANGED <<engVars, xVars, impl, appVars, file, uploadProgress, isDragging, calls, run>>

handleDemo ==
    /\ ZoneShown
    /\ ~uploading
    /\ uploading' = TRUE
    /\ error' = Null
    /\ progress' = Prog("processing", 0, "Generating demo data...", Null)
    /\ req' = [req EXCEPT ![mounts] = [kind |-> "demo", percent |-> 0]]
    /\ run' = NoRun
    /\ UNCHANGED <<engVars, xVars, impl, appVars, file, uploadProgress, isDragging, jobs, calls>>

\* the rest of handleDemo, after `await`: the answer to POST /upload/demo
DemoResponse(i, outcome) ==
    /\ req[i].kind = "demo"
    /\ req' = [req EXCEPT ![i] = NoReq]
    /\ IF outcome = "ok"
         THEN /\ Len(jobs) < MaxJobs
              /\ jobs' = Append(jobs, NewChain(i))
              /\ UNCHANGED <<error, uploading, progress>>
         ELSE /\ UNCHANGED jobs
              /\ IF Live(i)
                   THEN /\ error' = DemoError(outcome)
                        /\ uploading' = FALSE
                        /\ progress' = NoProgress
                   ELSE UNCHANGED <<error, uploading, progress>>
    /\ UNCHANGED <<engVars, xVars, impl, appVars, file, uploadProgress, isDragging, calls, run>>


\* the rest of pollProgress(j), after `await fetch(...)`: the answer r to
\* GET /conversion/status/j.  State setters of an unmounted instance do nothing;
\* onUploadComplete is App's and always acts.
StatusResponse(j, r) ==
    /\ j \in 1..Len(jobs)
    /\ jobs[j].poll = "fetch"
    /\ LET live == Live(jobs[j].owner)
           branch == IF r.kind = "ok" THEN PollBranch(r.status) ELSE "catch"
       IN  /\ jobs' = [jobs EXCEPT ![j] =
                  [owner |-> @.owner,
                   poll |-> IF branch = "continue" THEN "timer" ELSE "stopped",
                   last |-> IF r.kind = "ok" THEN r.status ELSE @.last]]
           /\ IF branch = "complete"
                THEN \* setUploading(false); onUploadComplete(jobId, data.schema):
                     \* App leaves the Import tab, which unmounts FileUpload
                     /\ handleUploadComplete(j, r.schema)
                     /\ calls' = Append(calls, [from |-> j, job |-> jobId', schema |-> schema',
                                                status |-> r.status, sent |-> r.schema])
                     /\ Fresh
                ELSE /\ UNCHANGED <<activeTab, jobId, schema, calls>>
                     /\ UNCHANGED <<file, uploadProgress, isDragging>>
                     /\ run' = IF live /\ r.kind = "ok"
                                 THEN [lastPct |-> r.percentage,
                                       mono |-> run.mono /\ JsOrZero(r.percentage)
                                                              >= JsOrZero(run.lastPct)]
                                 ELSE run
                     /\ IF live
                          THEN /\ progress' =
                                    IF r.kind = "ok" THEN ProgressOf(r)
                                    ELSE IF r.kind = "http_error" /\ impl = "FileUpload.jsx"
                                           THEN NoProgress
                                           ELSE progress
                               /\ error' =
                                    IF branch = "fail" THEN ConversionError(r)
                                    ELSE IF branch = "catch" THEN "Failed to check progress"
                                    ELSE error
                               /\ uploading' = IF branch = "continue" THEN uploading ELSE FALSE
                          ELSE UNCHANGED <<progress, error, uploading>>
    /\ UNCHANGED <<engVars, xVars, impl, mounts, req>>

\* setTimeout(() => pollProgress(jobId), 500) fires: the next status request is sent
PollTimer(j) ==
    /\ j \in 1..Len(jobs)
    /\ jobs[j].poll = "timer"
    /\ jobs' = [jobs EXCEPT ![j].poll = "fetch"]
    /\ UNCHANGED <<engVars, xVars, impl, appVars, cmpVars, req, calls, run>>

\* the "Try Again" buttons exist: part_003 renders one in the error alert and one
\* under a progress bar whose status is 'error'; FileUpload.jsx renders none
TryAgainShown ==
    /\ impl = "part_003"
    /\ Live(mounts)
    /\ \/ error # Null
       \/ (progress # NoProgress /\ progress.status = "error")

resetUpload ==
    /\ TryAgainShown
    /\ file' = NoFile
    /\ progress' = NoProgress
    /\ error' = Null
    /\ uploading' = FALSE
    /\ uploadProgress' = 0
    /\ UNCHANGED <<engVars, xVars, impl, appVars, isDragging, req, jobs, calls, run>>

\* --------------------------------------------------------- specification
Impls == {"part_003", "FileUpload.jsx"}

FeInit ==
    /\ impl \in Impls
    /\ activeTab = "members"
    /\ jobId = 0
    /\ schema = Null
    /\ mounts = 0
    /\ file = NoFile
    /\ uploading = FALSE
    /\ uploadProgress = 0
    /\ progress = NoProgress
    /\ error = Null
    /\ isDragging = FALSE
    /\ req = [i \in 1..MaxMounts |-> NoReq]
    /\ jobs = <<>>
    /\ calls = <<>>
    /\ run = NoRun

\* no conversion pipeline is modelled beside the front end
NoJob == [status |-> "none"]

\* a component that is not part of the specification at hand
Absent == [absent |-> TRUE]

\* every component record but the one named c is absent
OthersAbsent(c) ==
    /\ IF c = "kb" THEN TRUE ELSE kb = Absent
    /\ IF c = "auth" THEN TRUE ELSE auth = Absent
    /\ IF c = "sw" THEN TRUE ELSE sw = Absent
    /\ IF c = "ws" THEN TRUE ELSE ws = Absent
    /\ IF c = "mc" THEN TRUE ELSE mc = Absent
    /\ IF c = "ob" THEN TRUE ELSE ob = Absent
    /\ IF c = "dt" THEN TRUE ELSE dt = Absent

\* App just mounted, FileUpload (part_003) not on screen, nothing in flight
FeIdle ==
    /\ impl = "part_003"
    /\ activeTab = "members"
    /\ jobId = 0
    /\ schema = Null
    /\ mounts = 0
    /\ file = NoFile
    /\ uploading = FALSE
    /\ uploadProgress = 0
    /\ progress = NoProgress
    /\ error = Null
    /\ isDragging = FALSE
    /\ req = [i \in 1..MaxMounts |-> NoReq]
    /\ jobs = <<>>
    /\ calls = <<>>
    /\ run = NoRun

Init ==
    /\ FeInit
    /\ job = NoJob
    /\ OthersAbsent("none")

Next ==
    \/ \E t \in Tabs : SetActiveTab(t)
    \/ handleDragOver
    \/ handleDragLeave
    \/ \E f \in Files : handleDrop(f)
    \/ \E f \in Files : handleFileSelect(f)
    \/ handleUpload
    \/ \E i \in 1..MaxMounts, p \in UploadPercents : XhrProgress(i, p)
    \/ \E i \in 1..MaxMounts, o \in UploadOutcomes : UploadResponse(i, o)
    \/ handleDemo
    \/ \E i \in 1..MaxMounts, o \in UploadOutcomes : DemoResponse(i, o)
    \/ \E j \in 1..MaxJobs, r \in StatusResponses : StatusResponse(j, r)
    \/ \E j \in 1..MaxJobs : PollTimer(j)
    \/ resetUpload

Spec == Init /\ [][Next]_vars


\* ================================================================ claims
JobIds == 1..Len(jobs)
\* a step that handles the ok status response r of job j
Handled(j, r) ==
    /\ j \in JobIds
    /\ jobs[j].poll = "fetch"
    /\ jobs'[j].poll # "fetch"
    /\ jobs'[j].last = r.status
    /\ StatusResponse(j, r)

\* C1: once a status response reports a job in a terminal state (completed, error
\* or cancelled on the wire), the component schedules no further status request for
\* that job and uploading is false after the response is handled.
C1_TerminalStopsPolling ==
    [][ /\ \A j \in JobIds, r \in OkResponses :
              (Handled(j, r) /\ r.status \in TerminalStatuses)
                 => /\ jobs'[j].poll = "stopped"
                    /\ (Live(jobs[j].owner) => ~uploading')
        /\ \A j \in JobIds :
              jobs[j].last \in TerminalStatuses => jobs'[j].poll = "stopped" ]_vars

\* the diagnostic message of a failed job as each component reads it
C2_Diagnostic(r) == IF impl = "part_003" THEN r.message ELSE r.error

C3_CompleteOncePerJob ==
    /\ \A k \in DOMAIN calls :
          /\ calls[k].status = "completed"
          /\ jobs[calls[k].from].last = "completed"
          /\ calls[k].job = calls[k].from
          /\ calls[k].schema = calls[k].sent
    /\ \A k1, k2 \in DOMAIN calls : calls[k1].from = calls[k2].from => k1 = k2
    /\ calls # <<>> => /\ jobId = calls[Len(calls)].from
                       /\ schema = calls[Len(calls)].sent

\* C3 witness: two jobs completed with different schemas; App holds the later one
C3_Witness ==
    /\ Len(calls) = 2
    /\ calls[1].sent # calls[2].sent
    /\ schema = calls[2].sent

\* a job of the instance on screen has failed: upload error, conversion failure or
\* failed status check (every error text but the file-format one)
JobFailed == Live(mounts) /\ error \notin {Null, UnsupportedMessage}
Idle == Live(mounts) /\ progress = NoProgress /\ ~uploading
\* a handler the user can run on the mounted component
UserStep ==
    \/ handleDragOver
    \/ handleDragLeave
    \/ \E f \in Files : handleDrop(f)
    \/ \E f \in Files : handleFileSelect(f)
    \/ handleUpload
    \/ handleDemo
    \/ resetUpload

\* C4: from every state in which a job has failed, user actions on the mounted
\* component lead back to idle: the component is idle already or offers the user an
\* action (without one, no sequence of user actions exists).
C4_FailedCanRecover == JobFailed => (Idle \/ ENABLED UserStep)

\* C5 (part_003): while status is 'uploading' the percentage is 0.3 times the upload
\* percent, within [0, 30]; a status response sets it to 30 + 0.7 times the server's
\* percentage capped at 100, within [30, 100]; while the upload request is in flight
\* only the uploading phase is displayed.
C5_UploadLeadingPhase ==
    [][ impl = "part_003" =>
        /\ (progress' # NoProgress /\ progress'.status = "uploading")
              => /\ progress'.percentage = 3 * uploadProgress'
                 /\ progress'.percentage \in 0..300
        /\ \A j \in JobIds, r \in OkResponses :
              (Handled(j, r) /\ Live(jobs[j].owner) /\ progress' # NoProgress)
                 => /\ progress'.percentage =
                          (IF 300 + 7 * JsOrZero(r.percentage) > 1000
                             THEN 1000 ELSE 300 + 7 * JsOrZero(r.percentage))
                    /\ progress'.percentage \in 300..1000
        /\ \A i \in 1..MaxMounts :
              (UploadResponse(i, "ok") /\ Live(i)) => progress'.percentage = 300
        /\ (activeTab' = "upload" /\ req'[mounts'].kind = "upload")
              => (progress' # NoProgress /\ progress'.status = "uploading") ]_vars

\* C5 witness: a server percentage above 100 is displayed capped at 100 after an upload
C5_Witness ==
    /\ impl = "part_003"
    /\ Live(mounts)
    /\ progress # NoProgress
    /\ progress.status = "processing"
    /\ progress.percentage = 1000
    /\ run.lastPct = 120

\* C6: while the status responses of a job carry non-decreasing percentages, the
\* percentage displayed never decreases from the start of an upload or demo run
\* until a terminal status is shown.
C6_DisplayNeverDecreases ==
    [][ /\ \A j \in JobIds, r \in OkResponses :
              ( /\ Handled(j, r)
                /\ Live(jobs[j].owner)
                /\ r.percentage # NoPct
                /\ run'.mono
                /\ progress # NoProgress
                /\ progress.status \notin TerminalStatuses
                /\ progress' # NoProgress )
                 => Shown(progress') >= Shown(progress)
        /\ \A i \in 1..MaxMounts :
              ( /\ (UploadResponse(i, "ok") \/ \E p \in UploadPercents : XhrProgress(i, p))
                /\ Live(i) )
                 => Shown(progress') >= Shown(progress) ]_vars

\* the file name has a dot and the text after the last one is, in lower case, a
\* supported format
HasSupportedExtension(name) ==
    /\ \E i \in 1..Len(name) : name[i] = "."
    /\ ExtOf(name) \in SUPPORTED_FORMATS

\* part_003: a file without a supported extension is refused: an error is set and
\* the selected file stays as it was
C13_RefusalSetsError ==
    [][ \A f \in Files :
          ( /\ impl = "part_003"
            /\ ExtOf(f.name) \notin SUPPORTED_FORMATS
            /\ (handleDrop(f) \/ handleFileSelect(f)) )
             => (error' = UnsupportedMessage /\ file' = file) ]_vars

\* C13 (part_003): files whose extension (the text after the last dot, case-
\* insensitive) is not supported are refused, so the selected file, whenever it is
\* non-null, has a supported extension, also while it is being uploaded.
C13_OnlySupportedFiles ==
    (impl = "part_003" /\ file # NoFile) => HasSupportedExtension(file.name)

\* ============================================================ ConversionJob
\* The streaming conversion engine (spec.md sections 3 to 5 and 7).  One job
\* owns one pipeline: SchemaExtractor -> FieldTypeMapper -> ChunkedWriter
\* create_table, then BinaryRecordReader -> write_batch per batch.

\* FieldTypeMapper: source type -> relational column type (section 4.3)
TargetType(source_type) ==
    IF source_type \in {"int", "bool"} THEN "INTEGER"
    ELSE IF source_type \in {"double", "fixed_decimal"} THEN "REAL"
    ELSE IF source_type = "blob" THEN "BLOB"
    ELSE IF source_type \in {"date", "datetime"} THEN "DATETIME"
    ELSE "TEXT"

\* FieldTypeMapper over the ordered field list; target_name is made unique by
\* suffixing the index of the collision (0: no suffix)
FieldTypeMapper(fields) ==
    [i \in 1..Len(fields) |->
        [source_field |-> fields[i],
         target_type |-> TargetType(fields[i].source_type),
         target_name |-> <<fields[i].name,
                           Cardinality({k \in 1..(i - 1) : fields[k].name = fields[i].name})>>]]

\* mutant of TableColumns: the columns are created in reverse order
TableColumns_Reversed(mapping) ==
    [i \in 1..Len(mapping) |->
        [name |-> mapping[Len(mapping) + 1 - i].target_name,
         type |-> mapping[Len(mapping) + 1 - i].target_type]]

\* ChunkedWriter.create_table(mapping): the destination table's column list
TableColumns(mapping) ==
    [i \in 1..Len(mapping) |-> [name |-> mapping[i].target_name, type |-> mapping[i].target_type]]

\* the header field lists of the sources converted
FieldLists ==
    { << [name |-> "id", source_type |-> "int"],
         [name |-> "name", source_type |-> "string"],
         [name |-> "amount", source_type |-> "double"] >>,
      << [name |-> "v", source_type |-> "blob"],
         [name |-> "v", source_type |-> "mystery"] >> }

\* a source file: header (readable or not), n records, the record at badAt (0: none)
\* is corrupt for the reader or unconvertible for the mapper
Sources ==
    { [headerOk |-> h, fields |-> f, n |-> n, badAt |-> b, badKind |-> k] :
        h \in BOOLEAN, f \in FieldLists, n \in 0..MaxRecords, b \in 0..MaxRecords,
        k \in {"reader", "mapper"} }

\* BinaryRecordReader + per-row conversion: the DecodedRow of source record i
DecodedRow(i, mapping) == [record |-> i, arity |-> Len(mapping)]

NoError == [null |-> TRUE]

NewJob(src, b) ==
    [status |-> "queued", src |-> src, batchSize |-> b, cancel |-> FALSE,
     mapping |-> <<>>, tableExists |-> FALSE, table |-> <<>>,
     rows |-> <<>>, batch |-> <<>>, pos |-> 0, committed |-> 0,
     phase |-> "boundary", error |-> NoError,
     \* history: the flag was set while the job was converting
     cancelSeen |-> FALSE]

JobTerminal == {"completed", "failed", "cancelled"}

\* mutant of BoundaryOutcome: the cancellation flag is never looked at
BoundaryOutcome_IgnoresCancel(cancel, exhausted) ==
    IF exhausted THEN "completed" ELSE "converting"

\* what the job does between two batches: the cancellation flag is checked first,
\* then the end of the source (section 4.5)
BoundaryOutcome(cancel, exhausted) ==
    IF cancel THEN "cancelled"
    ELSE IF exhausted THEN "completed"
    ELSE "converting"

\* mutant of RowsAfterFailure: the rows of the failing batch decoded so far are kept
RowsAfterFailure_KeepsPartial(rows, batch) == rows \o batch

\* the destination after a batch failed: the batch is rolled back as a unit
RowsAfterFailure(rows, batch) == rows

\* mutant of FailureStatus: a job that hit a fatal error is put back in the queue
FailureStatus_Requeued == "queued"

\* the state a fatal error puts the job in
FailureStatus == "failed"

\* the diagnostic ConversionJob records: a readable message and the approximate
\* offset (counted in records consumed) at which the pipeline halted
Fail(msg, rows) ==
    job' = [job EXCEPT !.status = FailureStatus,
                       !.error = [message |-> msg, offset |-> job.pos],
                       !.rows = rows, !.batch = <<>>]

JobStart ==
    /\ job.status = "queued"
    /\ job' = [job EXCEPT !.status = "reading_schema"]
    /\ UNCHANGED <<feVars, xVars>>

\* SchemaExtractor, then FieldTypeMapper over the field list
ReadSchema ==
    /\ job.status = "reading_schema"
    /\ job.mapping = <<>>
    /\ IF ~job.src.headerOk
         THEN Fail("FormatError: bad header at offset 0", job.rows)
         ELSE job' = [job EXCEPT !.mapping = FieldTypeMapper(job.src.fields)]
    /\ UNCHANGED <<feVars, xVars>>

\* ChunkedWriter.create_table, after which the job converts
CreateTable ==
    /\ job.status = "reading_schema"
    /\ job.mapping # <<>>
    /\ job' = [job EXCEPT !.tableExists = TRUE, !.table = TableColumns(job.mapping),
                          !.status = "converting", !.phase = "boundary"]
    /\ UNCHANGED <<feVars, xVars>>

\* between two batches
BatchBoundary ==
    /\ job.status = "converting"
    /\ job.phase = "boundary"
    /\ LET out == BoundaryOutcome(job.cancel, job.pos = job.src.n)
       IN  job' = [job EXCEPT !.status = out,
                              !.phase = IF out = "converting" THEN "filling" ELSE @]
    /\ UNCHANGED <<feVars, xVars>>

\* the reader decodes the next record and the mapper converts it into the batch
ReadRecord ==
    /\ job.status = "converting"
    /\ job.phase = "filling"
    /\ job.pos < job.src.n
    /\ Len(job.batch) < job.batchSize
    /\ IF job.src.badAt = job.pos + 1
         THEN Fail(IF job.src.badKind = "reader"
                     THEN "FormatError: corrupt record" ELSE "mapper error: value cannot be converted",
                   RowsAfterFailure(job.rows, job.batch))
         ELSE job' = [job EXCEPT !.batch = Append(@, DecodedRow(job.pos + 1, job.mapping)),
                                 !.pos = @ + 1]
    /\ UNCHANGED <<feVars, xVars>>

BatchReady ==
    /\ job.status = "converting"
    /\ job.phase = "filling"
    /\ job.batch # <<>>
    /\ (Len(job.batch) = job.batchSize \/ job.pos = job.src.n)

\* mutant of CommitBatch: the destination keeps the rows of the last batch only
CommitBatch_Replaces(rows, batch) == batch

\* the destination after a batch was committed: its rows follow the earlier ones
CommitBatch(rows, batch) == rows \o batch

\* ChunkedWriter.write_batch: the batch is committed as one unit
WriteBatch ==
    /\ BatchReady
    /\ job' = [job EXCEPT !.rows = CommitBatch(@, job.batch), !.batch = <<>>,
                          !.committed = @ + 1, !.phase = "boundary"]
    /\ UNCHANGED <<feVars, xVars>>

\* ChunkedWriter.write_batch fails (WriteError): nothing of the batch is kept
WriteBatchFails ==
    /\ BatchReady
    /\ Fail("WriteError: destination store failure", RowsAfterFailure(job.rows, job.batch))
    /\ UNCHANGED <<feVars, xVars>>

\* the caller sets the cancellation flag of a job that has not ended
SetCancel ==
    /\ job.status \in {"queued", "reading_schema", "converting"}
    /\ ~job.cancel
    /\ job' = [job EXCEPT !.cancel = TRUE, !.cancelSeen = (job.status = "converting")]
    /\ UNCHANGED <<feVars, xVars>>

JobInit ==
    /\ impl = "part_003"
    /\ activeTab = "members"
    /\ jobId = 0
    /\ schema = Null
    /\ mounts = 0
    /\ file = NoFile
    /\ uploading = FALSE
    /\ uploadProgress = 0
    /\ progress = NoProgress
    /\ error = Null
    /\ isDragging = FALSE
    /\ req = [i \in 1..MaxMounts |-> NoReq]
    /\ jobs = <<>>
    /\ calls = <<>>
    /\ run = NoRun
    /\ job \in {NewJob(src, b) : src \in {s \in Sources : s.badAt <= s.n}, b \in 1..MaxBatch}
    /\ OthersAbsent("none")

JobNext ==
    \/ JobStart
    \/ ReadSchema
    \/ CreateTable
    \/ BatchBoundary
    \/ ReadRecord
    \/ WriteBatch
    \/ WriteBatchFails
    \/ SetCancel

JobSpec == JobInit /\ [][JobNext]_vars

\* the pipeline keeps running: every step of the job that stays possible is taken
JobLiveSpec ==
    /\ JobSpec
    /\ WF_vars(JobStart \/ ReadSchema \/ CreateTable \/ BatchBoundary \/ ReadRecord \/ WriteBatch)

\* ------------------------------------------------------------ job claims

Rank(status) ==
    IF status = "queued" THEN 0
    ELSE IF status = "reading_schema" THEN 1
    ELSE IF status = "converting" THEN 2
    ELSE 3

\* the destination rows of the first k source records
FirstRows(k) == [i \in 1..k |-> DecodedRow(i, job.mapping)]

\* the rows of the batches committed so far: every batch is full but possibly the
\* one that ends the source
CommittedRows ==
    FirstRows(IF job.committed * job.batchSize < job.src.n
                THEN job.committed * job.batchSize ELSE job.src.n)

\* C7: the status of a conversion job only advances along queued, reading_schema,
\* converting and then one of completed, failed, cancelled: it never moves back,
\* completed is reached only from converting, and a terminal status never changes.
C7_StatusOnlyAdvances ==
    [][ /\ Rank(job'.status) >= Rank(job.status)
        /\ (job'.status = "completed" /\ job.status # "completed") => job.status = "converting"
        /\ job.status \in JobTerminal => job'.status = job.status ]_vars

\* C7 witness: a job that went through every working state and wrote two batches
C7_Witness ==
    /\ job.status = "completed"
    /\ job.committed >= 2
    /\ Len(job.rows) = job.src.n

\* C8: no row is written unless the destination table was created before it, and
\* the table's columns are, in count and order, the ColumnMapping list produced
\* before the first row was written.
C8_TableBeforeRows ==
    /\ [](job.rows # <<>> =>
            /\ job.tableExists
            /\ Len(job.table) = Len(job.mapping)
            /\ \A i \in 1..Len(job.mapping) :
                  /\ job.table[i].name = job.mapping[i].target_name
                  /\ job.table[i].type = job.mapping[i].target_type)
    /\ [][ job'.rows # job.rows =>
            /\ job.tableExists
            /\ job.mapping # <<>>
            /\ job'.mapping = job.mapping
            /\ job'.table = job.table ]_vars

\* C8 witness: rows written into a three-column table
C8_Witness ==
    /\ job.rows # <<>>
    /\ Len(job.table) = 3
    /\ job.table[3].type = "REAL"

\* C9 as stated: a job whose cancellation flag was set while it was converting
\* ends in cancelled.
C9_CancelEndsCancelled ==
    (job.cancelSeen /\ job.status \in JobTerminal) => job.status = "cancelled"

\* C9: a cancellation flag set while the job is converting is honoured only at a
\* batch boundary; the job ends in cancelled unless a reader, mapper or writer error
\* fails it first, and a cancelled job's destination holds exactly the rows of the
\* batches committed before the stop.
C9_CancelAtBatchBoundary ==
    /\ [][ (job'.status = "cancelled" /\ job.status # "cancelled") =>
            /\ job.cancel
            /\ job.status = "converting"
            /\ job.phase = "boundary"
            /\ job.batch = <<>>
            /\ job'.rows = job.rows ]_vars
    /\ []((job.cancelSeen /\ job.status \in JobTerminal) => job.status \in {"cancelled", "failed"})
    /\ [](job.status = "cancelled" => (job.batch = <<>> /\ job.rows = CommittedRows))
    /\ (job.cancelSeen ~> job.status \in {"cancelled", "failed"})

\* C9 witness: the flag set after 3 of 10 batches; the 3 batches are what is left
C9_Witness ==
    /\ job.status = "cancelled"
    /\ job.cancelSeen
    /\ job.src.n = 10
    /\ job.batchSize = 1
    /\ job.committed = 3
    /\ job.rows = FirstRows(3)

\* a reader, mapper or writer error occurs in this step
ErrorOccurs ==
    \/ WriteBatchFails
    \/ (ReadRecord /\ job.src.badAt = job.pos + 1)

\* C10: a reader, mapper or writer error while the job is converting ends the job
\* in failed with a recorded diagnostic; the batches committed before stay in the
\* destination unchanged, the failing batch contributes no rows and no later batch
\* is written.
C10_FailureKeepsCommitted ==
    /\ [][ ErrorOccurs =>
            /\ job.status = "converting"
            /\ job'.status = "failed"
            /\ job'.error # NoError
            /\ job'.error.offset = job.pos
            /\ job'.rows = job.rows
            /\ job'.batch = <<>> ]_vars
    /\ [][ job.status = "failed" => job'.rows = job.rows ]_vars
    /\ [](job.status = "failed" => job.rows = CommittedRows)

\* C10 witness: a job failed in its third batch; the rows of two batches are kept and
\* the records decoded for the third are not in the destination
C10_Witness ==
    /\ job.status = "failed"
    /\ job.error # NoError
    /\ job.batchSize = 2
    /\ job.committed = 2
    /\ job.rows = FirstRows(4)
    /\ job.pos = 5

\* C11: a well-formed source of N records converted with any batch size gives, when
\* the job ends completed, exactly N destination rows, one per source record and
\* in the order of the source.
C11_RowsEqualRecords ==
    (job.status = "completed" /\ job.src.headerOk /\ job.src.badAt = 0) =>
        /\ Len(job.rows) = job.src.n
        /\ \A i \in 1..job.src.n : job.rows[i] = DecodedRow(i, job.mapping)

\* C11 witness: 10 records in batches of 2 and all 10 rows in the destination
C11_Witness ==
    /\ job.status = "completed"
    /\ job.src.badAt = 0
    /\ job.src.n = 10
    /\ job.batchSize = 2
    /\ job.committed = 5
    /\ Len(job.rows) = 10


\* ========================================================= KeyboardProvider
\* Keyboard.jsx: the shortcuts map, the help overlay and the keydown listener;
\* App.jsx registers its navigation shortcuts through useShortcut.

RECURSIVE Join(_)
\* the string made of a sequence of one-character strings
Join(s) == IF s = <<>> THEN "" ELSE Head(s) \o Join(Tail(s))

Shortcut(d, a) == [description |-> d, action |-> a]

DEFAULT_SHORTCUTS ==
    [k \in {"mod+k", "mod+/", "mod+enter", "mod+s", "mod+1", "mod+2", "mod+3", "mod+4", "escape"} |->
        Shortcut(CASE k = "mod+k" -> "Open command palette"
                   [] k = "mod+/" -> "Show keyboard shortcuts"
                   [] k = "mod+enter" -> "Run query"
                   [] k = "mod+s" -> "Export results"
                   [] k = "mod+1" -> "Go to Upload tab"
                   [] k = "mod+2" -> "Go to Schema tab"
                   [] k = "mod+3" -> "Go to Query tab"
                   [] k = "mod+4" -> "Go to History tab"
                   [] k = "escape" -> "Close modal/dialog", Null)]

\* the Navigation table of the Help page: the tab each shortcut is documented to open
HelpNavigation ==
    [k \in {"mod+1", "mod+2", "mod+3", "mod+4"} |->
        CASE k = "mod+1" -> "upload"
          [] k = "mod+2" -> "schema"
          [] k = "mod+3" -> "query"
          [] k = "mod+4" -> "history"]

\* the useShortcut calls of AppContent: key, () => setActiveTab(tab), description
AppShortcuts ==
    << [key |-> "mod+1", tab |-> "upload", description |-> "Go to Upload"],
       [key |-> "mod+2", tab |-> "schema", description |-> "Go to Schema"],
       [key |-> "mod+3", tab |-> "dashboard", description |-> "Go to Dashboard"],
       [key |-> "mod+4", tab |-> "query", description |-> "Go to Query"],
       [key |-> "mod+5", tab |-> "populations", description |-> "Go to Populations"],
       [key |-> "mod+6", tab |-> "reports", description |-> "Go to Reports"],
       [key |-> "mod+7", tab |-> "messages", description |-> "Go to Messages"],
       [key |-> "mod+8", tab |-> "settings", description |-> "Go to Settings"] >>

AppTabs == {AppShortcuts[i].tab : i \in 1..Len(AppShortcuts)}

\* prev[key]?.description
DescriptionOf(prev, key) == IF key \in DOMAIN prev THEN prev[key].description ELSE Null

\* registerShortcut's updater: {...prev, [key]: {description: description || prev[key]?.description, action}}
registerShortcut(prev, key, action, description) ==
    [k \in DOMAIN prev \cup {key} |->
        IF k = key THEN Shortcut(JsOrStr(description, DescriptionOf(prev, key)), action)
        ELSE prev[k]]

\* unregisterShortcut's updater: {...prev, [key]: {...prev[key], action: null}}
unregisterShortcut(prev, key) ==
    [k \in DOMAIN prev \cup {key} |->
        IF k = key THEN Shortcut(DescriptionOf(prev, key), Null) ELSE prev[k]]

RECURSIVE RegisterAll(_, _)
\* the useShortcut effects of AppContent, run in the order of the calls
RegisterAll(prev, list) ==
    IF list = <<>> THEN prev
    ELSE RegisterAll(registerShortcut(prev, Head(list).key, Head(list).tab, Head(list).description),
                     Tail(list))

\* keys other components register a callback for, through the context
RegKeys == {"mod+/", "escape", "mod+k"}

\* KeyboardEvent.key of the keys pressed, character by character
EventKeys ==
    { <<"1">>, <<"2">>, <<"3">>, <<"4">>, <<"/">>, <<"K">>,
      <<"E", "s", "c", "a", "p", "e">> }

Modifiers(m, c, s, a) == [metaKey |-> m, ctrlKey |-> c, shiftKey |-> s, altKey |-> a]

\* no modifier, Ctrl, Cmd, Ctrl+Shift, Alt
KeyModifiers ==
    { Modifiers(FALSE, FALSE, FALSE, FALSE), Modifiers(FALSE, TRUE, FALSE, FALSE),
      Modifiers(TRUE, FALSE, FALSE, FALSE), Modifiers(FALSE, TRUE, TRUE, FALSE),
      Modifiers(FALSE, FALSE, FALSE, TRUE) }

KeyEvents ==
    { [metaKey |-> m.metaKey, ctrlKey |-> m.ctrlKey, shiftKey |-> m.shiftKey,
       altKey |-> m.altKey, key |-> k] : m \in KeyModifiers, k \in EventKeys }

\* history: no key handled since the last change of the provider's state
NoKey == [none |-> TRUE]
\* history: the key event handled last and the overlay state it found
Pressed(e, showHelp) == [none |-> FALSE, e |-> e, showHelp |-> showHelp]

\* const key = e.key.toLowerCase()
EventKey(e) == Join(toLowerCase(e.key))

\* shortcutKey as handleKeyDown builds it
ShortcutKey(e) ==
    (IF e.metaKey \/ e.ctrlKey THEN "mod+" ELSE "")
        \o (IF e.shiftKey THEN "shift+" ELSE "")
        \o (IF e.altKey THEN "alt+" ELSE "")
        \o EventKey(e)

\* shortcuts[shortcutKey]?.action
ActionOf(shortcuts, shortcutKey) ==
    IF shortcutKey \in DOMAIN shortcuts THEN shortcuts[shortcutKey].action ELSE Null

OnlyKb == UNCHANGED <<feVars, engVars, auth, sw, ws, mc, ob, dt>>

\* the useShortcut effects of AppContent run after App is mounted
AppMountEffects ==
    /\ ~kb.app
    /\ kb' = [kb EXCEPT !.app = TRUE, !.shortcuts = RegisterAll(@, AppShortcuts), !.last = NoKey]
    /\ OnlyKb

\* another component registers a callback through the context
RegisterCallback(key, description) ==
    /\ kb' = [kb EXCEPT !.shortcuts = registerShortcut(@, key, "callback", description),
                        !.last = NoKey]
    /\ kb'.shortcuts # kb.shortcuts
    /\ OnlyKb

UnregisterCallback(key) ==
    /\ ActionOf(kb.shortcuts, key) = "callback"
    /\ kb' = [kb EXCEPT !.shortcuts = unregisterShortcut(@, key), !.last = NoKey]
    /\ OnlyKb

\* mutant of NextShowHelp: Escape leaves the overlay open
NextShowHelp_NoEscape(showHelp, shortcutKey, key) ==
    IF shortcutKey = "mod+/" THEN ~showHelp ELSE showHelp

\* the two special cases of handleKeyDown: mod+/ toggles the help overlay,
\* Escape closes it when it is shown
NextShowHelp(showHelp, shortcutKey, key) ==
    IF shortcutKey = "mod+/" THEN ~showHelp
    ELSE IF key = "escape" /\ showHelp THEN FALSE
    ELSE showHelp

\* the keydown listener of KeyboardProvider
handleKeyDown(e) ==
    LET shortcutKey == ShortcutKey(e)
        action == ActionOf(kb.shortcuts, shortcutKey)
    IN  IF action # Null
          THEN \* e.preventDefault(); shortcuts[shortcutKey].action(); return
               IF action \in AppTabs /\ action # activeTab
                 THEN SetActiveTab(action)
                 ELSE /\ kb' = [kb EXCEPT !.last = Pressed(e, kb.showHelp)]
                      /\ OnlyKb
          ELSE /\ kb' = [kb EXCEPT !.showHelp = NextShowHelp(@, shortcutKey, EventKey(e)),
                                   !.last = Pressed(e, kb.showHelp)]
               /\ OnlyKb

\* the close button or the backdrop of the overlay: onClose
CloseHelp ==
    /\ kb.showHelp
    /\ kb' = [kb EXCEPT !.showHelp = FALSE, !.last = NoKey]
    /\ OnlyKb

KeyInit ==
    /\ FeIdle
    /\ job = NoJob
    /\ OthersAbsent("kb")
    /\ kb = [shortcuts |-> DEFAULT_SHORTCUTS, showHelp |-> FALSE, app |-> FALSE, last |-> NoKey]

KeyNext ==
    \/ AppMountEffects
    \/ \E key \in RegKeys, d \in {Null, "Custom"} : RegisterCallback(key, d)
    \/ \E key \in RegKeys : UnregisterCallback(key)
    \/ \E e \in KeyEvents : handleKeyDown(e)
    \/ CloseHelp

KeySpec == KeyInit /\ [][KeyNext]_vars

\* Ctrl or Cmd with a key and no other modifier
ModPress(e) == (e.metaKey \/ e.ctrlKey) /\ ~e.shiftKey /\ ~e.altKey

\* C12: with the application mounted, Ctrl/Cmd+1, +2, +3 and +4 switch the active
\* tab to Upload, Schema, Query and History, as the Help page states.
C12_ShortcutsOpenDocumentedTabs ==
    [][ \A e \in KeyEvents :
            ( /\ kb.app
              /\ ModPress(e)
              /\ ShortcutKey(e) \in DOMAIN HelpNavigation
              /\ handleKeyDown(e) )
               => activeTab' = HelpNavigation[ShortcutKey(e)] ]_vars

\* the key handled last was Ctrl/Cmd+/
SlashPressed == ~kb.last.none /\ ModPress(kb.last.e) /\ EventKey(kb.last.e) = "/"

\* the key handled last was Escape alone, and it found the overlay shown
EscapePressed ==
    /\ ~kb.last.none
    /\ ~kb.last.e.metaKey /\ ~kb.last.e.ctrlKey /\ ~kb.last.e.shiftKey /\ ~kb.last.e.altKey
    /\ EventKey(kb.last.e) = "escape"
    /\ kb.last.showHelp

AccessTokens == {"a1", "a2"}

\* history: what refreshToken returned in the step just taken
NoReturn == [value |-> "none", token |-> Null, user |-> Null]
\* history: the value returned, the token the server sent (Null when none) and the
\* user before the returning step
Returned(v, token, user) == [value |-> v, token |-> token, user |-> user]

OnlyAuth == UNCHANGED <<feVars, engVars, kb, sw, ws, mc, ob, dt>>

\* the finally block of logout
LoggedOut(a) == [a EXCEPT !.accessToken = Null, !.refreshToken = Null, !.user = Null]

\* login up to its fetch
LoginStart ==
    /\ auth.login = "idle"
    /\ auth' = [auth EXCEPT !.login = "fetch", !.ret = NoReturn]
    /\ OnlyAuth

\* login after POST /auth/login answered
LoginResponse(outcome, token) ==
    /\ auth.login = "fetch"
    /\ auth' = IF outcome = "ok"
                 THEN [auth EXCEPT !.login = "idle", !.ret = NoReturn, !.accessToken = token,
                                   !.refreshToken = "r1", !.user = "u1"]
                 ELSE [auth EXCEPT !.login = "idle", !.ret = NoReturn]
    /\ OnlyAuth

\* logout called by the application: without a stored access token nothing is
\* awaited and the finally block runs at once
LogoutStart ==
    /\ auth.logout = "idle"
    /\ auth' = IF auth.accessToken # Null
                 THEN [auth EXCEPT !.logout = "fetch", !.ret = NoReturn]
                 ELSE [LoggedOut(auth) EXCEPT !.ret = NoReturn]
    /\ OnlyAuth

\* POST /auth/logout answered or failed: finally
LogoutDone ==
    /\ auth.logout = "fetch"
    /\ auth' = [LoggedOut(auth) EXCEPT !.logout = "idle", !.ret = NoReturn]
    /\ OnlyAuth

\* refreshToken after its refresh request failed: logout(), then return false
RefreshFailed(a) ==
    IF a.accessToken # Null
      THEN [a EXCEPT !.refresh = "logout", !.ret = NoReturn]
      ELSE [LoggedOut(a) EXCEPT !.refresh = "idle", !.ret = Returned("false", Null, a.user)]

\* refreshToken up to its fetch; without a stored refresh token it returns false
RefreshStart ==
    /\ auth.refresh = "idle"
    /\ auth' = IF auth.refreshToken = Null
                 THEN [auth EXCEPT !.ret = Returned("false", Null, auth.user)]
                 ELSE [auth EXCEPT !.refresh = "fetch", !.ret = NoReturn]
    /\ OnlyAuth

\* POST /auth/refresh answered (ok with a token) or failed
RefreshResponse(outcome, token) ==
    /\ auth.refresh = "fetch"
    /\ auth' = IF outcome = "ok"
                 THEN [auth EXCEPT !.refresh = "idle", !.accessToken = token,
                                   !.ret = Returned("true", token, auth.user)]
                 ELSE RefreshFailed(auth)
    /\ OnlyAuth

\* the logout awaited by refreshToken is through: return false
RefreshLogoutDone ==
    /\ auth.refresh = "logout"
    /\ auth' = [LoggedOut(auth) EXCEPT !.refresh = "idle", !.ret = Returned("false", Null, auth.user)]
    /\ OnlyAuth

\* the page is loaded again: React state and calls in flight are gone, localStorage
\* stays; the mount effect fetches the current user when an access token is stored
Reload ==
    /\ auth' = [auth EXCEPT !.user = Null, !.login = "idle", !.logout = "idle",
                            !.refresh = "idle", !.ret = NoReturn,
                            !.me = IF auth.accessToken # Null THEN "fetch" ELSE "idle"]
    /\ auth' # auth
    /\ OnlyAuth

\* fetchCurrentUser after GET /auth/me answered
MeResponse(outcome) ==
    /\ auth.me = "fetch"
    /\ auth' = CASE outcome = "ok" -> [auth EXCEPT !.me = "idle", !.ret = NoReturn, !.user = "u1"]
                 [] outcome = "http_error" ->
                        [auth EXCEPT !.me = "idle", !.ret = NoReturn,
                                     !.accessToken = Null, !.refreshToken = Null]
                 [] OTHER -> [auth EXCEPT !.me = "idle", !.ret = NoReturn]
    /\ OnlyAuth

AuthOutcomes == {"ok", "http_error", "neterr"}

AuthInit ==
    /\ FeIdle
    /\ job = NoJob
    /\ OthersAbsent("auth")
    /\ auth = [user |-> Null, accessToken |-> Null, refreshToken |-> Null,
               login |-> "idle", logout |-> "idle", refresh |-> "idle", me |-> "idle",
               ret |-> NoReturn]

AuthNext ==
    \/ LoginStart
    \/ \E o \in AuthOutcomes, t \in AccessTokens : LoginResponse(o, t)
    \/ LogoutStart
    \/ LogoutDone
    \/ RefreshStart
    \/ \E o \in AuthOutcomes, t \in AccessTokens : RefreshResponse(o, t)
    \/ RefreshLogoutDone
    \/ Reload
    \/ \E o \in AuthOutcomes : MeResponse(o)

AuthSpec == AuthInit /\ [][AuthNext]_vars

\* C14: whenever refreshToken returns false the session has been logged out (both
\* tokens removed from localStorage, user null); whenever it returns true the stored
\* accessToken is the token the server returned and user is unchanged.
C14_RefreshTokenOutcome ==
    /\ auth.ret.value = "false" =>
          (auth.accessToken = Null /\ auth.refreshToken = Null /\ auth.user = Null)
    /\ auth.ret.value = "true" =>
          (auth.accessToken = auth.ret.token /\ auth.user = auth.ret.user)


\* =========================================================== service worker
\* part_001: install, activate, fetch and sync listeners.  A path is the sequence of
\* its segments: <<>> is '/', <<"api", "query">> is '/api/query'.

STATIC_CACHE == "static-v3"
DYNAMIC_CACHE == "dynamic-v3"
\* a cache left by an earlier version of the worker
OldCache == "static-v2"
CacheNames == {STATIC_CACHE, DYNAMIC_CACHE, OldCache}

STATIC_ASSETS ==
    { <<>>, <<"index.html">>, <<"manifest.json">>, <<"icons", "icon-192.png">>,
      <<"icons", "icon-512.png">> }

OfflinePage == <<"offline.html">>

\* url.pathname.startsWith('/api/')
StartsWithApi(path) == Len(path) >= 2 /\ path[1] = "api"

Req(method, path, mode) == [method |-> method, path |-> path, mode |-> mode]

\* the requests the pages under the worker's scope make
Requests ==
    { Req("GET", <<"report">>, "navigate"),
      Req("GET", <<"index.html">>, "navigate"),
      Req("GET", OfflinePage, "navigate"),
      Req("GET", <<"assets", "app.js">>, "no-cors"),
      Req("GET", <<"api", "query">>, "cors"),
      Req("GET", <<"api">>, "cors"),
      Req("POST", <<"report">>, "cors"),
      Req("POST", <<"api", "query">>, "cors") }

\* what the network gives for a request: a response with its ok flag, or a failure
NetOutcomes == {"ok", "not_ok", "failed"}

\* a cache entry: the request it is stored under and the ok flag of the response
Entry(method, path, ok) == [method |-> method, path |-> path, ok |-> ok]

\* caches.match(request): an entry of any cache stored under the same GET URL
Match(cs, path) ==
    {e \in UNION {cs[n] : n \in CacheNames} : e.method = "GET" /\ e.path = path}

\* mutant of Cacheable: every response is stored
Cacheable_Always(outcome) == outcome # "failed"

\* if (response.ok): only successful responses are put into the cache
Cacheable(outcome) == outcome = "ok"

\* cache.put(request, response) into DYNAMIC_CACHE when the response may be stored
PutDynamic(cs, r, outcome) ==
    IF Cacheable(outcome)
      THEN [cs EXCEPT ![DYNAMIC_CACHE] =
                {e \in @ : ~(e.method = r.method /\ e.path = r.path)}
                    \cup {Entry(r.method, r.path, outcome = "ok")}]
      ELSE cs

\* history: how the last fetch event was answered
NoAnswer == [req |-> Req("none", <<>>, "none"), hit |-> FALSE, net |-> "none", body |-> "none"]
Answer(r, hit, net, body) == [req |-> r, hit |-> hit, net |-> net, body |-> body]

OnlySw == UNCHANGED <<feVars, engVars, kb, auth, ws, mc, ob, dt>>

\* install: cache.addAll(STATIC_ASSETS) stores all assets or, when one of them does
\* not come back ok, nothing; then skipWaiting
Install(allOk) ==
    /\ sw.phase = "new"
    /\ sw' = IF allOk
               THEN [sw EXCEPT !.phase = "installed",
                               !.caches[STATIC_CACHE] = {Entry("GET", p, TRUE) : p \in STATIC_ASSETS}]
               ELSE [sw EXCEPT !.phase = "redundant"]
    /\ OnlySw

\* activate: caches other than the two current ones are deleted; clients.claim()
Activate ==
    /\ sw.phase = "installed"
    /\ sw' = [sw EXCEPT !.phase = "active",
                        !.caches = [n \in CacheNames |->
                                      IF n # STATIC_CACHE /\ n # DYNAMIC_CACHE THEN {} ELSE @[n]]]
    /\ OnlySw

\* the fetch listener with the promise chain it starts; net is what the network
\* gives when the chain fetches (the background update on a hit, the fetch on a miss)
FetchEvent(r, net) ==
    /\ sw.phase = "active"
    /\ LET hit == Match(sw.caches, r.path) # {}
       IN  IF r.method # "GET" \/ StartsWithApi(r.path)
             THEN \* the listener returns: the browser handles the request
                  sw' = [sw EXCEPT !.answer = Answer(r, FALSE, net, "passthrough")]
             ELSE IF hit
               THEN sw' = [sw EXCEPT !.caches = PutDynamic(@, r, net),
                                     !.answer = Answer(r, TRUE, net, "cached")]
               ELSE IF net # "failed"
                 THEN sw' = [sw EXCEPT !.caches = PutDynamic(@, r, net),
                                       !.answer = Answer(r, FALSE, net, "network")]
                 ELSE sw' = [sw EXCEPT !.answer =
                                Answer(r, FALSE, net,
                                       IF r.mode = "navigate" /\ Match(sw.caches, OfflinePage) # {}
                                         THEN "offline" ELSE "undefined")]
    /\ OnlySw

QueryIds == 1..MaxQueries

RECURSIVE SortedIds(_)
\* db.getAll('pending-queries'): the stored queries in key order
SortedIds(ids) ==
    IF ids = {} THEN <<>>
    ELSE LET lo == CHOOSE q \in ids : \A o \in ids : q <= o
         IN  <<lo>> \o SortedIds(ids \ {lo})

NoSync == [active |-> FALSE, queue |-> <<>>, posted |-> [q \in QueryIds |-> 0]]

\* the page queues a query for the next sync
AddQuery(q) ==
    /\ q \notin sw.store
    /\ sw' = [sw EXCEPT !.store = @ \cup {q}]
    /\ OnlySw

\* the sync listener: syncQueries() up to the loop, for the tag 'sync-queries'
SyncEvent(tag) ==
    /\ sw.phase = "active"
    /\ ~sw.sync.active
    /\ tag = "sync-queries"
    /\ sw' = [sw EXCEPT !.sync = [active |-> sw.store # {}, queue |-> SortedIds(sw.store),
                                  posted |-> [q \in QueryIds |-> 0]]]
    /\ OnlySw

\* one turn of the loop of syncQueries: POST /api/query, then db.delete unless the
\* fetch rejected
SyncPost(outcome) ==
    /\ sw.sync.active
    /\ LET q == Head(sw.sync.queue)
           rest == Tail(sw.sync.queue)
       IN  sw' = [sw EXCEPT !.sync = [active |-> rest # <<>>, queue |-> rest,
                                      posted |-> [sw.sync.posted EXCEPT ![q] = @ + 1]],
                            !.store = IF outcome = "failed" THEN @ ELSE @ \ {q},
                            !.lost = IF outcome = "not_ok" /\ q \in sw.store THEN @ \cup {q} ELSE @]
    /\ OnlySw

SwInit ==
    /\ FeIdle
    /\ job = NoJob
    /\ OthersAbsent("sw")
    /\ sw = [phase |-> "new",
             caches |-> [n \in CacheNames |->
                            IF n = OldCache THEN {Entry("GET", <<"index.html">>, TRUE)} ELSE {}],
             answer |-> NoAnswer,
             store |-> {}, sync |-> NoSync, lost |-> {}]

SwNext ==
    \/ \E allOk \in BOOLEAN : Install(allOk)
    \/ Activate
    \/ \E r \in Requests, net \in NetOutcomes : FetchEvent(r, net)
    \/ \E q \in QueryIds : AddQuery(q)
    \/ SyncEvent("sync-queries")
    \/ \E o \in NetOutcomes : SyncPost(o)

SwSpec == SwInit /\ [][SwNext]_vars

\* C15: during a sync-queries run a pending query is removed from the store only
\* after it was delivered successfully, a query whose delivery failed stays in the
\* store, and each pending query is posted at most once per run.
C15_SyncRemovesOnlyDelivered ==
    /\ sw.lost = {}
    /\ \A q \in QueryIds : sw.sync.posted[q] <= 1

\* C16: no cache ever holds a response to a non-GET request or to a request whose
\* path starts with /api/, nor a response whose ok flag is false.
C16_OnlyOkGetNonApiCached ==
    \A n \in CacheNames : \A e \in sw.caches[n] :
        /\ e.method = "GET"
        /\ ~(Len(e.path) >= 2 /\ e.path[1] = "api")
        /\ e.ok

\* C16 witness: responses stored by install and by both fetch paths, after requests
\* of every kind, one of them answered with a response that is not ok
C16_Witness ==
    /\ sw.caches[STATIC_CACHE] # {}
    /\ Cardinality(sw.caches[DYNAMIC_CACHE]) >= 3
    /\ sw.answer.req.method = "POST"
    /\ sw.answer.net = "not_ok"

\* C17: once the worker is installed, a navigation request that is in no cache and
\* whose network fetch fails is answered with the offline page.
C17_OfflinePageServed ==
    ( /\ sw.answer.req.mode = "navigate"
      /\ sw.answer.req.method = "GET"
      /\ ~sw.answer.hit
      /\ sw.answer.net = "failed" )
       => sw.answer.body = "offline"


\* ===================================================== NotificationProvider
\* NotificationCenter.jsx: the WebSocket opened by the effect on userId, its
\* handlers, the 5 s timer started by onclose, and markRead.

UserIds == {"u1", "u2"}

\* a notification as the server sends it
Note(id, read) == [id |-> id, read |-> read]
NoteIds == 1..MaxNotes

\* wsRef.current.readyState; "none" while wsRef.current is null
ReadyStates == {"none", "connecting", "open", "closing", "closed"}

OnlyWs == UNCHANGED <<feVars, engVars, kb, auth, sw, mc, ob, dt>>

\* Math.max(0, prev - 1)
DecUnread(n) == IF n - 1 < 0 THEN 0 ELSE n - 1

\* the effect on [userId]: cleanup of the previous run (ws.close() on the socket it
\* opened), then a new WebSocket when userId is set
UserIdEffect(userId) ==
    /\ userId # ws.userId
    /\ ws' = [ws EXCEPT !.userId = userId,
                        !.socket = IF userId # Null THEN "connecting"
                                   ELSE IF @ \in {"connecting", "open"} THEN "closing" ELSE @,
                        \* the socket closed by the cleanup fires its onclose later
                        !.oldClosing = @ \/ (ws.userId # Null /\ ws.socket \in {"connecting", "open"})]
    /\ OnlyWs

\* the connection is established: ws.onopen
WsOpen ==
    /\ ws.socket = "connecting"
    /\ ws' = [ws EXCEPT !.socket = "open"]
    /\ OnlyWs

\* the connection fails or is lost: ws.onclose starts the 5 s timer
WsClose ==
    /\ ws.socket \in {"connecting", "open"}
    /\ ws.timers < MaxTimers
    /\ ws' = [ws EXCEPT !.socket = "closed", !.timers = @ + 1]
    /\ OnlyWs

\* onclose of a socket closed by the effect's cleanup
OldSocketClose ==
    /\ ws.oldClosing
    /\ ws.timers < MaxTimers
    /\ ws' = [ws EXCEPT !.oldClosing = FALSE, !.timers = @ + 1,
                        !.socket = IF @ = "closing" THEN "closed" ELSE @]
    /\ OnlyWs

\* what the 5 s timer does with wsRef.current when it finds it CLOSED
ReconnectAttempt(socket) == socket

\* the timer set by onclose fires: if (wsRef.current?.readyState === WebSocket.CLOSED) { }
ReconnectTimer ==
    /\ ws.timers > 0
    /\ ws' = [ws EXCEPT !.timers = @ - 1,
                        !.socket = IF @ = "closed" THEN ReconnectAttempt(@) ELSE @]
    /\ OnlyWs

\* ws.onmessage
WsMessage(data) ==
    /\ ws.socket = "open"
    /\ ws' = CASE data.type = "notifications_state" ->
                    [ws EXCEPT !.notifications = data.notifications, !.unreadCount = data.unread_count]
               [] data.type = "notification" /\ Len(ws.notifications) < MaxNotes
                     /\ ws.unreadCount < MaxNotes ->
                    [ws EXCEPT !.notifications = <<data.notification>> \o @, !.unreadCount = @ + 1]
               [] data.type = "unread_count" -> [ws EXCEPT !.unreadCount = data.count]
               [] OTHER -> ws
    /\ ws' # ws
    /\ OnlyWs

WsMessages ==
    { [type |-> "notifications_state", notifications |-> <<Note(1, FALSE)>>, unread_count |-> 1],
      [type |-> "notifications_state", notifications |-> <<>>, unread_count |-> 0],
      [type |-> "notification", notification |-> Note(2, FALSE)],
      [type |-> "unread_count", count |-> 0],
      [type |-> "unread_count", count |-> 2] }

\* markRead(notificationId); 0 stands for no id (mark all)
markRead(notificationId) ==
    /\ ws' = IF notificationId # 0
               THEN [ws EXCEPT !.notifications =
                                   [i \in 1..Len(@) |-> IF @[i].id = notificationId
                                                          THEN Note(@[i].id, TRUE) ELSE @[i]],
                               !.unreadCount = DecUnread(@)]
               ELSE [ws EXCEPT !.notifications = [i \in 1..Len(@) |-> Note(@[i].id, TRUE)],
                               !.unreadCount = 0]
    /\ ws' # ws
    /\ OnlyWs

WsInit ==
    /\ FeIdle
    /\ job = NoJob
    /\ OthersAbsent("ws")
    /\ ws = [userId |-> Null, socket |-> "none", timers |-> 0, oldClosing |-> FALSE,
             notifications |-> <<>>, unreadCount |-> 0]

WsNext ==
    \/ \E u \in UserIds \cup {Null} : UserIdEffect(u)
    \/ WsOpen
    \/ WsClose
    \/ OldSocketClose
    \/ ReconnectTimer
    \/ \E data \in WsMessages : WsMessage(data)
    \/ \E id \in {0} \cup NoteIds : markRead(id)

WsSpec == WsInit /\ [][WsNext]_vars

\* timers fire, and a connection that is being established gets established or fails
WsLiveSpec ==
    /\ WsSpec
    /\ WF_vars(ReconnectTimer)
    /\ WF_vars(WsOpen)
    /\ WF_vars(OldSocketClose)

\* C18: when the notification WebSocket has closed while the provider stays mounted
\* with the same userId, a reconnect is attempted, so that the socket does not stay
\* closed: a connection is eventually being opened or open again.
C18_ReconnectsAfterClose ==
    (ws.userId # Null /\ ws.socket = "closed")
        ~> (ws.socket \in {"connecting", "open"} \/ ws.userId = Null)

-----------------------------------------------------------------------------
\* MessageCenter (MessageCenter.jsx), shown by App while activeTab = 'messages',
\* with App's selectedPopulation.  mc holds selectedPopulation and the state of
\* the mounted MessageCenter instance; requests of the instance are in previews
\* (previewMessage calls in flight) and sending (sendMessages calls in flight);
\* sends and loaded are the history of the instance: the bodies POSTed to
\* /messaging/send and the (template, population) pairs whose preview was loaded.

TemplateIds == {"t1", "t2"}
PopulationIds == {"p1", "p2"}
McTabs == {"members", "populations", "messages"}

\* the App after one upload has completed and the user went back to 'members'
FeAfterUpload ==
    /\ impl = "part_003"
    /\ activeTab = "members"
    /\ jobId = 1
    /\ schema = "schemaA"
    /\ mounts = 1
    /\ file = NoFile
    /\ uploading = FALSE
    /\ uploadProgress = 0
    /\ progress = NoProgress
    /\ error = Null
    /\ isDragging = FALSE
    /\ req = [i \in 1..MaxMounts |-> NoReq]
    /\ jobs = <<[last |-> "completed", owner |-> 1, poll |-> "stopped"]>>
    /\ calls = <<[schema |-> "schemaA", job |-> 1, status |-> "completed",
                  from |-> 1, sent |-> "schemaA"]>>
    /\ run = NoRun

OnlyMc == UNCHANGED <<feVars, engVars, kb, auth, sw, ws, ob, dt>>

NoPreview == [null |-> TRUE]

\* the useState initial values of a MessageCenter instance
McMounted(selectedPopulation) ==
    [selectedPopulation |-> selectedPopulation,
     loading |-> TRUE, templates |-> {},
     showPreview |-> FALSE, previewData |-> NoPreview,
     previews |-> {}, sending |-> {},
     sends |-> {}, loaded |-> {}, threw |-> FALSE]

McVisible == activeTab = "messages" /\ mc.loading = FALSE

InFlight == Cardinality(mc.previews) + Cardinality(mc.sending)

\* setActiveTab(t) of a nav item: MessageCenter is rendered only under
\* activeTab === 'messages', so entering mounts a new instance and leaving drops
\* the instance together with the continuations of its requests
NavItem(t) ==
    /\ t # activeTab
    /\ t = "messages" \/ activeTab = "messages"
    /\ activeTab' = t
    /\ mc' = McMounted(mc.selectedPopulation)
    /\ UNCHANGED <<engVars, kb, auth, sw, ws, ob, dt, impl, jobId, schema, mounts, cmpVars,
                   req, jobs, calls, run>>

\* PopulationManager's onSelectPopulation, App.handleSelectPopulation
handleSelectPopulation(pop) ==
    /\ activeTab = "populations"
    /\ jobId # 0
    /\ activeTab' = "messages"
    /\ mc' = McMounted(pop)
    /\ UNCHANGED <<engVars, kb, auth, sw, ws, ob, dt, impl, jobId, schema, mounts, cmpVars,
                   req, jobs, calls, run>>

\* the mount effect: with a jobId loadTemplates runs and its finally clears
\* loading; without a jobId the loader stays
loadTemplates(ok) ==
    /\ activeTab = "messages"
    /\ jobId # 0
    /\ mc.loading
    /\ mc' = [mc EXCEPT !.loading = FALSE,
                        !.templates = IF ok THEN TemplateIds ELSE {}]
    /\ OnlyMc

\* the Preview button of a template card
previewMessage(templateId, populationId) ==
    /\ McVisible
    /\ templateId \in mc.templates
    /\ mc.selectedPopulation # Null
    /\ populationId = mc.selectedPopulation
    /\ InFlight < MaxInFlight
    /\ mc' = [mc EXCEPT !.previews = @ \cup
                 {[template |-> templateId, population |-> populationId, stage |-> "sample"]}]
    /\ OnlyMc

SampleOutcomes == {"record", "no_record", "failed"}

\* the answer of GET /messaging/sample: with a sample_record the preview is POSTed
SampleResponse(r, outcome) ==
    /\ activeTab = "messages"
    /\ r \in mc.previews
    /\ r.stage = "sample"
    /\ mc' = [mc EXCEPT !.previews =
                 (@ \ {r}) \cup (IF outcome = "record"
                                   THEN {[r EXCEPT !.stage = "preview"]}
                                   ELSE {})]
    /\ OnlyMc

PreviewOutcomes == {"ok", "error", "failed"}

\* the JSON body of the preview answer: the preview of the template, or the
\* body of an HTTP error, which has no template
PreviewBody(outcome, templateId) ==
    IF outcome = "ok"
      THEN [template |-> templateId, rendered |-> TRUE]
      ELSE [template |-> Null, rendered |-> FALSE]

\* the answer of POST /template/{id}/preview: any JSON body is stored and opens
\* the dialog (response.ok is not looked at); a failed fetch or a body that is
\* not JSON goes to the catch
PreviewResponse(r, outcome) ==
    /\ activeTab = "messages"
    /\ r \in mc.previews
    /\ r.stage = "preview"
    /\ IF outcome = "failed"
         THEN mc' = [mc EXCEPT !.previews = @ \ {r}]
         ELSE mc' = [mc EXCEPT !.previews = @ \ {r},
                               !.previewData = PreviewBody(outcome, r.template),
                               !.showPreview = TRUE,
                               !.loaded = IF outcome = "ok"
                                            THEN @ \cup {<<r.template, r.population>>}
                                            ELSE @]
    /\ OnlyMc

\* sendMessages up to its fetch: the body POSTed to /messaging/send
sendMessages(templateId, populationId, dryRun, from) ==
    LET body == [template |-> templateId, population |-> populationId,
                 dry_run |-> dryRun, from |-> from]
    IN  mc' = [mc EXCEPT !.sends = @ \cup {body}, !.sending = @ \cup {body}]

\* the Dry Run button of a template card
CardSend(templateId) ==
    /\ McVisible
    /\ templateId \in mc.templates
    /\ mc.selectedPopulation # Null
    /\ InFlight < MaxInFlight
    /\ sendMessages(templateId, mc.selectedPopulation, TRUE, "card")
    /\ OnlyMc

DialogSendArgs_FirstTemplate(previewData, selectedPopulation) ==
    [template |-> "t1", population |-> selectedPopulation]

\* the arguments of the dialog's send button
DialogSendArgs(previewData, selectedPopulation) ==
    [template |-> previewData.template, population |-> selectedPopulation]

\* the dialog is rendered under showPreview && previewData
DialogOpen == McVisible /\ mc.showPreview /\ mc.previewData # NoPreview

\* the send button of the preview dialog: previewData.template.id throws when
\* the stored body has no template, and then nothing is sent
DialogSend ==
    /\ DialogOpen
    /\ IF mc.previewData.template = Null
         THEN mc' = [mc EXCEPT !.threw = TRUE]
         ELSE /\ InFlight < MaxInFlight
              /\ LET a == DialogSendArgs(mc.previewData, mc.selectedPopulation)
                 IN  sendMessages(a.template, a.population, FALSE, "dialog")
    /\ OnlyMc

SendOutcomes == {"send_job", "no_job", "failed"}

\* the answer of POST /messaging/send: with a send_job the dialog is closed
SendResponse(s, outcome) ==
    /\ activeTab = "messages"
    /\ s \in mc.sending
    /\ mc' = [mc EXCEPT !.sending = @ \ {s},
                        !.showPreview = IF outcome = "send_job" THEN FALSE ELSE @]
    /\ OnlyMc

\* the Close button and the Modal's onClose
ClosePreview ==
    /\ DialogOpen
    /\ mc' = [mc EXCEPT !.showPreview = FALSE]
    /\ OnlyMc

McInit ==
    /\ FeIdle \/ FeAfterUpload
    /\ job = NoJob
    /\ OthersAbsent("mc")
    /\ mc = McMounted(Null)

McNext ==
    \/ \E t \in McTabs : NavItem(t)
    \/ \E p \in PopulationIds : handleSelectPopulation(p)
    \/ \E ok \in BOOLEAN : loadTemplates(ok)
    \/ \E t \in TemplateIds, p \in PopulationIds : previewMessage(t, p)
    \/ \E r \in mc.previews, o \in SampleOutcomes : SampleResponse(r, o)
    \/ \E r \in mc.previews, o \in PreviewOutcomes : PreviewResponse(r, o)
    \/ \E t \in TemplateIds : CardSend(t)
    \/ DialogSend
    \/ \E s \in mc.sending, o \in SendOutcomes : SendResponse(s, o)
    \/ ClosePreview

McSpec == McInit /\ [][McNext]_vars

\* C20: a real send (dry_run = false) is issued only from the preview dialog, and
\* only after a preview of the same template for the selected population was
\* loaded successfully; the send of a template card always has dry_run = true.
C20_RealSendOnlyAfterPreview ==
    \A s \in mc.sends :
        /\ s.dry_run = FALSE =>
               /\ s.from = "dialog"
               /\ s.population = mc.selectedPopulation
               /\ <<s.template, s.population>> \in mc.loaded
        /\ s.from = "card" => s.dry_run = TRUE

C20_Witness ==
    /\ \E s \in mc.sends : s.dry_run = FALSE /\ s.template = "t2" /\ s.population = "p2"
    /\ \E s \in mc.sends : s.from = "card" /\ s.template = "t1"
    /\ mc.loaded = {<<"t2", "p2">>}
    /\ mc.threw

-----------------------------------------------------------------------------
\* OnboardingProvider (QueryInterface.jsx).  ob holds the three useState values,
\* the localStorage flag 'yxdb-onboarding-completed' (stored), the auto-start
\* timer of the effect, and history: the last operation (last), how the tour was
\* last completed (how), and whether neither startTour nor resetTour has been
\* called since the last completion (sealed).

TOUR_STEPS == <<"welcome", "upload", "tabs", "schema", "query", "templates", "results", "done">>
totalSteps == Len(TOUR_STEPS)

OnlyOb == UNCHANGED <<feVars, engVars, kb, auth, sw, ws, mc, dt>>

EffectTimer_NoCleanup(hasCompleted, isActive, timer) ==
    timer \/ (~hasCompleted /\ ~isActive)

\* the effect on [hasCompleted]: the cleanup of the previous run clears its
\* timer, and a new timer is set for a user who has not completed the tour and
\* sees no tour
EffectTimer(hasCompleted, isActive, timer) ==
    ~hasCompleted /\ ~isActive

\* the effect runs again only when hasCompleted has changed
AfterRender(prev, next) ==
    IF next.hasCompleted # prev.hasCompleted
      THEN [next EXCEPT !.timer = EffectTimer(next.hasCompleted, next.isActive, prev.timer)]
      ELSE next

\* mount: useState initial values, hasCompleted from localStorage, first effect
ObMount ==
    /\ ~ob.mounted
    /\ ob.remounts < MaxRemounts
    /\ ob' = [ob EXCEPT !.mounted = TRUE,
                        !.remounts = @ + 1,
                        !.isActive = FALSE,
                        !.currentStep = 0,
                        !.hasCompleted = ob.stored,
                        !.timer = EffectTimer(ob.stored, FALSE, FALSE),
                        !.last = "mount"]
    /\ OnlyOb

\* unmount (a reload of the page): the effect's cleanup clears the timer; the
\* component state is gone, localStorage stays
ObUnmount ==
    /\ ob.mounted
    /\ ob' = [ob EXCEPT !.mounted = FALSE, !.timer = FALSE, !.isActive = FALSE,
                        !.currentStep = 0, !.hasCompleted = FALSE, !.last = "unmount"]
    /\ OnlyOb

\* the setTimeout callback, one second after the effect
AutoStart ==
    /\ ob.mounted
    /\ ob.timer
    /\ ob' = [ob EXCEPT !.timer = FALSE, !.isActive = TRUE, !.last = "auto"]
    /\ OnlyOb

startTour ==
    /\ ob.mounted
    /\ ob' = AfterRender(ob, [ob EXCEPT !.currentStep = 0, !.isActive = TRUE,
                                        !.sealed = FALSE, !.last = "start"])
    /\ OnlyOb

completeTour(prev, how) ==
    AfterRender(prev, [prev EXCEPT !.isActive = FALSE, !.hasCompleted = TRUE,
                                   !.stored = TRUE, !.sealed = TRUE,
                                   !.how = how, !.last = how])

\* Next / Finish of the overlay
nextStep ==
    /\ ob.mounted
    /\ ob.isActive
    /\ IF ob.currentStep < totalSteps - 1
         THEN ob' = [ob EXCEPT !.currentStep = @ + 1, !.last = "next"]
         ELSE ob' = completeTour(ob, "finish")
    /\ OnlyOb

\* Back of the overlay, rendered for currentStep > 0
prevStep ==
    /\ ob.mounted
    /\ ob.isActive
    /\ ob.currentStep > 0
    /\ ob' = [ob EXCEPT !.currentStep = @ - 1, !.last = "prev"]
    /\ OnlyOb

\* the close button of the overlay
skipTour ==
    /\ ob.mounted
    /\ ob.isActive
    /\ ob' = completeTour(ob, "skip")
    /\ OnlyOb

resetTour ==
    /\ ob.mounted
    /\ ob' = AfterRender(ob, [ob EXCEPT !.stored = FALSE, !.hasCompleted = FALSE,
                                        !.currentStep = 0, !.sealed = FALSE,
                                        !.last = "reset"])
    /\ OnlyOb

\* a browser profile without the flag or with it, before the provider mounts
ObInit ==
    /\ FeIdle
    /\ job = NoJob
    /\ OthersAbsent("ob")
    /\ \E stored \in BOOLEAN :
         ob = [mounted |-> FALSE, remounts |-> 0, isActive |-> FALSE, currentStep |-> 0,
               hasCompleted |-> FALSE, stored |-> stored, timer |-> FALSE,
               sealed |-> FALSE, how |-> "none", last |-> "none"]

ObNext ==
    \/ ObMount
    \/ ObUnmount
    \/ AutoStart
    \/ startTour
    \/ nextStep
    \/ prevStep
    \/ skipTour
    \/ resetTour

ObSpec == ObInit /\ [][ObNext]_vars

\* C21: the tour auto-starts only while hasCompleted is false; once the tour was
\* finished on its last step or skipped, isActive is false, hasCompleted is true
\* and the flag is stored, and the tour is not active again, also after a
\* remount, until startTour or resetTour is called; currentStep stays within
\* 0..totalSteps-1.
C21_TourCompletesOnce ==
    /\ ob.last = "auto" => ~ob.hasCompleted /\ ob.isActive
    /\ ob.last \in {"finish", "skip"} => ~ob.isActive /\ ob.hasCompleted /\ ob.stored
    /\ ob.sealed => ~ob.isActive /\ ~ob.timer /\ ob.stored
    /\ ob.currentStep \in 0..(totalSteps - 1)

C21_Witness ==
    /\ ob.sealed
    /\ ob.how = "finish"
    /\ ob.last = "mount"
    /\ ob.remounts = 2
    /\ ob.hasCompleted
    /\ ~ob.isActive
    /\ ~ob.timer

-----------------------------------------------------------------------------
\* DataTable (DataTable.jsx) with one column 'name' of string cells.  dt holds the
\* data prop, the sortConfig, the filter of the column (set: whether the key is
\* in filters) and currentPage; last is the last operation.  Cells are sequences
\* of characters.

pageSize == PageSize

Cell(str) == [i \in 1..Len(str) |-> str[i]]

Datasets ==
    { <<>>,
      << <<"b">> >>,
      << <<"B">>, <<"a">>, <<"a", "b">> >>,
      << <<"b">>, <<"A">>, <<"a", "b">>, <<"B", "a">>, <<"a">> >> }

FilterValues == { <<>>, <<"a">>, <<"B">>, <<"a", "b">> }

NoFilters == [set |-> FALSE, value |-> <<>>]

OnlyDt == UNCHANGED <<feVars, engVars, kb, auth, sw, ws, mc, ob>>

\* String.prototype.includes
Includes(str, sub) ==
    \E k \in 0..(Len(str) - Len(sub)) :
        \A j \in 1..Len(sub) : str[k + j] = sub[j]

\* filteredData: every row when no key is in filters or the value is empty
FilteredData(data, filters) ==
    IF ~filters.set \/ filters.value = <<>>
      THEN data
      ELSE SelectSeq(data, LAMBDA cell : Includes(toLowerCase(cell), toLowerCase(filters.value)))

LetterRank == [a |-> 1, b |-> 2]

RECURSIVE LexCompare(_, _)
LexCompare(x, y) ==
    IF x = <<>> /\ y = <<>> THEN 0
    ELSE IF x = <<>> THEN 0 - 1
    ELSE IF y = <<>> THEN 1
    ELSE IF LetterRank[Head(x)] < LetterRank[Head(y)] THEN 0 - 1
    ELSE IF LetterRank[Head(x)] > LetterRank[Head(y)] THEN 1
    ELSE LexCompare(Tail(x), Tail(y))

RECURSIVE CaseCompare(_, _)
CaseCompare(x, y) ==
    IF x = <<>> THEN 0
    ELSE IF Head(x) = Head(y) THEN CaseCompare(Tail(x), Tail(y))
    ELSE IF Head(x) \in DOMAIN LetterRank THEN 0 - 1 ELSE 1

\* String.prototype.localeCompare: letters first, lower case before upper case
\* between strings of the same letters
localeCompare(x, y) ==
    LET c == LexCompare(toLowerCase(x), toLowerCase(y))
    IN  IF c # 0 THEN c ELSE CaseCompare(x, y)

\* the comparator of sortedData for string cells
Comparator(a, b, direction) ==
    IF direction = "asc" THEN localeCompare(a, b) ELSE localeCompare(b, a)

RECURSIVE Insert(_, _, _)
Insert(sorted, cell, direction) ==
    IF sorted = <<>> THEN <<cell>>
    ELSE IF Comparator(cell, Head(sorted), direction) < 0
      THEN <<cell>> \o sorted
      ELSE <<Head(sorted)>> \o Insert(Tail(sorted), cell, direction)

RECURSIVE Sort(_, _)
Sort(seq, direction) ==
    IF seq = <<>> THEN <<>>
    ELSE Insert(Sort(SubSeq(seq, 1, Len(seq) - 1), direction), seq[Len(seq)], direction)

\* sortedData: the filtered rows, sorted (stably) when a sort key is set
SortedData(data, filters, sortConfig) ==
    IF sortConfig.key = Null
      THEN FilteredData(data, filters)
      ELSE Sort(FilteredData(data, filters), sortConfig.direction)

\* Array.prototype.slice(start, end) for 0 <= start <= end
Slice(seq, start, end) ==
    SubSeq(seq, start + 1, MathMin(end, Len(seq)))

\* paginatedData
PaginatedData(sorted, currentPage) ==
    LET start == (currentPage - 1) * pageSize
    IN  Slice(sorted, start, start + pageSize)

\* Math.ceil(sortedData.length / pageSize)
TotalPages(sorted) == (Len(sorted) + pageSize - 1) \div pageSize

sortedData == SortedData(dt.data, dt.filters, dt.sortConfig)
totalPages == TotalPages(sortedData)
paginatedData == PaginatedData(sortedData, dt.currentPage)

\* the table is rendered only for data.length > 0
TableShown == dt.data # <<>>

\* the pagination bar is rendered only for totalPages > 1
PaginationShown == TableShown /\ totalPages > 1

\* the parent renders DataTable with another data prop; the state is kept
SetData(data) ==
    /\ data # dt.data
    /\ dt' = [dt EXCEPT !.data = data, !.last = "data"]
    /\ OnlyDt

handleSort(key) ==
    /\ TableShown
    /\ dt' = [dt EXCEPT !.sortConfig =
                 [key |-> key,
                  direction |-> IF @.key = key /\ @.direction = "asc" THEN "desc" ELSE "asc"],
                        !.last = "sort"]
    /\ OnlyDt

handleFilter(key, value) ==
    /\ TableShown
    /\ dt' = [dt EXCEPT !.filters = [set |-> TRUE, value |-> value],
                        !.currentPage = 1,
                        !.last = "filter"]
    /\ OnlyDt

\* 'Clear filters', rendered while some filter has a value: setFilters({})
ClearFilters ==
    /\ TableShown
    /\ dt.filters.set /\ dt.filters.value # <<>>
    /\ dt' = [dt EXCEPT !.filters = NoFilters, !.last = "clear"]
    /\ OnlyDt

FirstPage ==
    /\ PaginationShown
    /\ dt.currentPage # 1
    /\ dt' = [dt EXCEPT !.currentPage = 1, !.last = "first"]
    /\ OnlyDt

PrevPage ==
    /\ PaginationShown
    /\ dt.currentPage # 1
    /\ dt' = [dt EXCEPT !.currentPage = IF @ - 1 >= 1 THEN @ - 1 ELSE 1, !.last = "prev"]
    /\ OnlyDt

NextPage ==
    /\ PaginationShown
    /\ dt.currentPage # totalPages
    /\ dt' = [dt EXCEPT !.currentPage = MathMin(totalPages, @ + 1), !.last = "next"]
    /\ OnlyDt

LastPage ==
    /\ PaginationShown
    /\ dt.currentPage # totalPages
    /\ dt' = [dt EXCEPT !.currentPage = totalPages, !.last = "last"]
    /\ OnlyDt

DtInit ==
    /\ FeIdle
    /\ job = NoJob
    /\ OthersAbsent("dt")
    /\ \E data \in Datasets :
         dt = [data |-> data, sortConfig |-> [key |-> Null, direction |-> "asc"],
               filters |-> NoFilters, currentPage |-> 1, last |-> "none"]

DtNext ==
    \/ \E data \in Datasets : SetData(data)
    \/ handleSort("name")
    \/ \E value \in FilterValues : handleFilter("name", value)
    \/ ClearFilters
    \/ FirstPage
    \/ PrevPage
    \/ NextPage
    \/ LastPage

DtSpec == DtInit /\ [][DtNext]_vars

\* C22: after any sequence of sort, filter, clear-filter and page-navigation
\* actions and of replacements of the data prop, 1 <= currentPage <=
\* max(1, totalPages), and the page shown is rows (currentPage-1)*pageSize up to
\* currentPage*pageSize-1 of the filtered and sorted data.
C22_PageInRange ==
    /\ 1 <= dt.currentPage
    /\ dt.currentPage <= (IF totalPages > 1 THEN totalPages ELSE 1)
    /\ paginatedData =
         [i \in 1..MathMin(pageSize, Len(sortedData) - (dt.currentPage - 1) * pageSize)
            |-> sortedData[(dt.currentPage - 1) * pageSize + i]]

\* what does hold: as long as the data prop is not replaced, the page is in range
C22_InRangeWithoutReplacement ==
    [][dt'.last # "data" /\ (dt.currentPage <= (IF totalPages > 1 THEN totalPages ELSE 1))
         => dt'.currentPage <= (IF TotalPages(SortedData(dt'.data, dt'.filters, dt'.sortConfig)) > 1
                                  THEN TotalPages(SortedData(dt'.data, dt'.filters, dt'.sortConfig))
                                  ELSE 1)]_vars

=============================================================================
